---- MODULE Spec2Model ----
(***************************************************************************)
(* Flow trigger tracker: Component.run of src/src/component.py driving the *)
(* storage API through KeboolaClient of src/src/keboolaApi/client.py.      *)
(* One step of the model is one remote call, or one piece of local code    *)
(* between two remote calls.  The remote side is the set of triggers, the  *)
(* configurations and the tables the storage API holds.                    *)
(***************************************************************************)
EXTENDS Integers, Sequences, FiniteSets, TLC

(* ------------------------------ bounds --------------------------------- *)

\* Number of triggers the remote holds when the run starts.
MaxTriggers == 2

(* ------------------------- the remote's contents ------------------------ *)

\* Timestamps.  The API gives ISO strings, which Python compares
\* lexicographically; for one fixed format that is the order of the digits.
Times == {20240101, 20240102}

\* lastRun the server gives a trigger it has just created.
CreatedLastRun == 20240103

TableIds == {"t1", "t2"}

ConfigurationIds == {"123", "456"}

\* What the remote holds for a table id: a table with that lastImportDate
\* ("detail"), a 2xx answer with an empty body ("empty"), or nothing, so that
\* GET /tables/{id} answers 404 ("gone").
TableAnswers ==
  { [kind |-> "detail", lastImportDate |-> d] : d \in Times }
    \cup { [kind |-> k, lastImportDate |-> 0] : k \in {"empty", "gone"} }

\* The triggers a project may hold (id and position are given by Init).
TriggerPool ==
  { [component |-> "keboola.ex-foo", configurationId |-> "123",
     runWithTokenId |-> 456, coolDownPeriodMinutes |-> 15,
     lastRun |-> 20240101, tables |-> <<"t1", "t2">>],
    [component |-> "keboola.ex-foo", configurationId |-> "123",
     runWithTokenId |-> 456, coolDownPeriodMinutes |-> 15,
     lastRun |-> 20240101, tables |-> <<"t1">>],
    [component |-> "keboola.orchestrator", configurationId |-> "456",
     runWithTokenId |-> 789, coolDownPeriodMinutes |-> 5,
     lastRun |-> 20240102, tables |-> <<"t2", "t1">>],
    [component |-> "keboola.orchestrator", configurationId |-> "456",
     runWithTokenId |-> 789, coolDownPeriodMinutes |-> 5,
     lastRun |-> 20240102, tables |-> <<>>] }

\* config.json "parameters": flow_trigger_ids may be missing altogether.
FlowIdLists == { <<>>, <<"123">>, <<"456">>, <<"123", "456">> }

ParameterSets ==
  { p \in [ has_flow_trigger_ids : BOOLEAN,
            flow_trigger_ids : FlowIdLists,
            output_list_flows : BOOLEAN ] :
      ~p.has_flow_trigger_ids => p.flow_trigger_ids = <<>> }

\* The HTTP outcomes _handle_http_error tells apart.
Responses == {"ok", "error", "malformed"}

(* ------------------------------ state ---------------------------------- *)

VARIABLES
  remoteTriggers,   \* the triggers the storage API holds, in list order
  remoteConfigs,    \* the configuration ids that still exist
  remoteTables,     \* TableIds -> TableAnswers
  nextId,           \* the id the server gives the next created trigger
  startTriggers,    \* remoteTriggers when the run started (history)
  parameters,       \* self.configuration.parameters
  pc,               \* position of run()
  phase,            \* which _list_triggers call is running: "reset"/"report"
  fetched,          \* _list_triggers: the local list `triggers`
  fetchedAll,       \* what get_triggers answered for this call (history)
  ti, bi,           \* _list_triggers: trigger index, table index
  triggers,         \* run(): the list _list_triggers returned
  ri,               \* run(): index in the reset loop
  si,               \* run(): statement of the reset loop's body
  calls,            \* create_trigger / remove_trigger calls issued so far
  rows,             \* rows written to flows_with_trigger.csv
  exc,              \* the exception that ended the run, "none" if none
  failedAt,         \* the call of the traceback that raised it
  exitCode          \* process exit code, -1 while running

vars == << remoteTriggers, remoteConfigs, remoteTables, nextId, startTriggers,
           parameters, pc, phase, fetched, fetchedAll, ti, bi, triggers, ri,
           si, calls, rows, exc, failedAt, exitCode >>

remoteVars == << remoteTriggers, nextId >>
staticVars == << remoteConfigs, remoteTables, startTriggers, parameters >>
listVars == << fetched, fetchedAll, ti, bi >>

(* ------------------------------ helpers -------------------------------- *)

Range(s) == { s[i] : i \in 1..Len(s) }

NoDetail == [present |-> FALSE, id |-> "", name |-> ""]

NoTableDetail ==
  [present |-> FALSE, id |-> "", lastImportDate |-> 0, is_expected |-> FALSE]

\* A trigger as GET /triggers lists it, before enrichment.
Listed(t) ==
  [ id |-> t.id, component |-> t.component,
    configurationId |-> t.configurationId,
    runWithTokenId |-> t.runWithTokenId,
    coolDownPeriodMinutes |-> t.coolDownPeriodMinutes,
    lastRun |-> t.lastRun,
    tables |-> [ k \in 1..Len(t.tables) |->
                   [tableId |-> t.tables[k], table_detail |-> NoTableDetail] ],
    configuration_detail |-> NoDetail,
    some_tables_missing |-> FALSE ]

WithId(p, i) ==
  [ id |-> i, component |-> p.component, configurationId |-> p.configurationId,
    runWithTokenId |-> p.runWithTokenId,
    coolDownPeriodMinutes |-> p.coolDownPeriodMinutes,
    lastRun |-> p.lastRun, tables |-> p.tables ]

NoSpec ==
  [ runWithTokenId |-> 0, component |-> "", configurationId |-> "",
    coolDownPeriodMinutes |-> 0, tableIds |-> <<>> ]

ConfigName(cid) == IF cid = "123" THEN "Flow A" ELSE "Flow B"

(* ------------------------- client.py, as operators ---------------------- *)

\* _handle_http_error: the exception a response raises, "none" for a 2xx.
handle_http_error(response) ==
  CASE response = "ok" -> "none"
    [] response = "error" -> "KeboolaClientException"
    [] OTHER -> "JSONDecodeError"

\* get_trigger without its membership test.
get_trigger_unfiltered(all, flow_ids) == all

\* get_trigger: the triggers of the full list whose configurationId is in
\* flow_ids.
get_trigger(all, flow_ids) ==
  SelectSeq(all, LAMBDA t : t.configurationId \in Range(flow_ids))

\* What the server stores for POST /triggers with body `spec`.
Created(spec, id) ==
  [ id |-> id, component |-> spec.component,
    configurationId |-> spec.configurationId,
    runWithTokenId |-> spec.runWithTokenId,
    coolDownPeriodMinutes |-> spec.coolDownPeriodMinutes,
    lastRun |-> CreatedLastRun, tables |-> spec.tableIds ]

\* The responses the remote can give to each call.
ConfigResponses(cid) ==
  IF cid \in remoteConfigs THEN {"ok"} ELSE {"error", "malformed"}

TableResponses(tid) ==
  IF remoteTables[tid].kind = "gone" THEN {"error", "malformed"} ELSE {"ok"}

(* ------------------------ component.py, as operators -------------------- *)

\* _is_expected
is_expected(last_run, last_import) == last_run >= last_import

\* _prep_new_trigger_configuration forgetting the cooldown.
prep_without_cooldown(trigger) ==
  [ runWithTokenId |-> trigger.runWithTokenId,
    component |-> trigger.component,
    configurationId |-> trigger.configurationId,
    coolDownPeriodMinutes |-> 0,
    tableIds |-> [ k \in 1..Len(trigger.tables) |-> trigger.tables[k].tableId ] ]

\* _prep_new_trigger_configuration listing the tables backwards.
prep_reversed_tables(trigger) ==
  [ runWithTokenId |-> trigger.runWithTokenId,
    component |-> trigger.component,
    configurationId |-> trigger.configurationId,
    coolDownPeriodMinutes |-> trigger.coolDownPeriodMinutes,
    tableIds |-> [ k \in 1..Len(trigger.tables) |->
                     trigger.tables[Len(trigger.tables) + 1 - k].tableId ] ]

\* _prep_new_trigger_configuration
prep_new_trigger_configuration(trigger) ==
  [ runWithTokenId |-> trigger.runWithTokenId,
    component |-> trigger.component,
    configurationId |-> trigger.configurationId,
    coolDownPeriodMinutes |-> trigger.coolDownPeriodMinutes,
    tableIds |-> [ k \in 1..Len(trigger.tables) |-> trigger.tables[k].tableId ] ]

\* The reset loop removing the trigger before it creates the new one.
ResetOrderRemoveFirst == << "remove_trigger", "create_trigger" >>

\* The order of the two remote calls in the body of run()'s reset loop.
ResetOrder == << "create_trigger", "remove_trigger" >>

\* _list_triggers returning every fetched trigger.
ListResultUnfiltered(enriched) == enriched

\* _list_triggers' return statement.
ListResult(enriched) ==
  SelectSeq(enriched, LAMBDA t : t.configuration_detail.present)

\* __main__: the exit code for the exception that leaves execute_action.
ExitCodeOf(e) ==
  CASE e = "none" -> 0
    [] e = "UserException" -> 1
    [] OTHER -> 2

\* run(), line 43: the value of the reset condition, or the exception its
\* evaluation raises: params.get gives None for a missing key, and len(None)
\* raises TypeError.
ResetCondition(params) ==
  IF params.has_flow_trigger_ids /\ Len(params.flow_trigger_ids) > 0
    THEN "true"
    ELSE IF ~params.has_flow_trigger_ids THEN "TypeError" ELSE "false"

\* (trigger, table) index pairs in the order of run()'s nested loops.
RECURSIVE Pairs(_, _)
Pairs(trigs, i) ==
  IF i > Len(trigs) THEN << >>
  ELSE [ k \in 1..Len(trigs[i].tables) |-> <<i, k>> ] \o Pairs(trigs, i + 1)

\* The row run() writes for one pair.
Row(trigger, table) ==
  [ flow_configuration_id |-> trigger.configuration_detail.id,
    trigger_last_run |-> trigger.lastRun,
    flow_configuration_name |-> trigger.configuration_detail.name,
    selected_table_id |-> table.tableId,
    selected_table_is_expected |-> table.table_detail.is_expected,
    selected_table_last_import_date |-> table.table_detail.lastImportDate ]

\* table.get('table_detail') is None for a table without detail, and .get on
\* it raises: the loop writes the rows before the first such pair.
Writable(trigs) ==
  LET ps == Pairs(trigs, 1)
      bad == { n \in 1..Len(ps) :
                 ~trigs[ps[n][1]].tables[ps[n][2]].table_detail.present }
  IN IF bad = {} THEN Len(ps)
     ELSE (CHOOSE n \in bad : \A m \in bad : n <= m) - 1

\* The report loop writing the first table of each trigger only.
ReportRowsFirstTable(trigs) ==
  LET ps == SelectSeq(Pairs(trigs, 1), LAMBDA q : q[2] = 1)
  IN [ n \in 1..Len(ps) |->
         Row(trigs[ps[n][1]], trigs[ps[n][1]].tables[ps[n][2]]) ]

ReportRows(trigs) ==
  LET ps == Pairs(trigs, 1)
  IN [ n \in 1..Writable(trigs) |->
         Row(trigs[ps[n][1]], trigs[ps[n][1]].tables[ps[n][2]]) ]

(* ------------------------------- Init ---------------------------------- *)

TriggerLists ==
  UNION { [ 1..n -> TriggerPool ] : n \in 0..MaxTriggers }

Init ==
  /\ \E ps \in TriggerLists :
       /\ remoteTriggers = [ i \in 1..Len(ps) |-> WithId(ps[i], i) ]
       /\ startTriggers = [ i \in 1..Len(ps) |-> WithId(ps[i], i) ]
       /\ nextId = Len(ps) + 1
  /\ remoteConfigs \in SUBSET ConfigurationIds
  /\ remoteTables \in [ TableIds -> TableAnswers ]
  /\ parameters \in ParameterSets
  /\ pc = "run"
  /\ phase = "reset"
  /\ fetched = << >>
  /\ fetchedAll = << >>
  /\ ti = 1
  /\ bi = 1
  /\ triggers = << >>
  /\ ri = 1
  /\ si = 1
  /\ calls = << >>
  /\ rows = << >>
  /\ exc = "none"
  /\ failedAt = "none"
  /\ exitCode = -1

(* ---------------------------- control flow ----------------------------- *)

\* The exception propagates to __main__, which logs it and exits.
Raise(e, where) ==
  pc' = "exit" /\ exc' = e /\ failedAt' = where /\ exitCode' = ExitCodeOf(e)

\* run() returns and the process ends normally.
Return ==
  pc' = "exit" /\ exc' = "none" /\ failedAt' = "none" /\ exitCode' = 0

Goto(l) == pc' = l /\ UNCHANGED << exc, failedAt, exitCode >>

\* run(), line 56: after the reset part, the report part or the end.
AfterReset ==
  IF parameters.output_list_flows
    THEN Goto("get_triggers") /\ phase' = "report"
    ELSE Return /\ phase' = phase

\* The flow_ids argument of the running _list_triggers call.
FlowIdsArg ==
  IF phase = "reset" THEN parameters.flow_trigger_ids ELSE << >>

(* ------------------------------ actions -------------------------------- *)

\* run(), lines 39-44: the reset condition.
RunStart ==
  /\ pc = "run"
  /\ LET c == ResetCondition(parameters)
     IN CASE c = "true" -> Goto("get_triggers") /\ phase' = "reset"
          [] c = "false" -> AfterReset
          [] OTHER -> Raise(c, "run") /\ phase' = phase
  /\ UNCHANGED << remoteVars, staticVars, listVars, triggers, ri, si, calls,
                  rows >>

\* _list_triggers, lines 112-115: get_trigger(flow_ids) or get_triggers().
GetTriggers ==
  /\ pc = "get_triggers"
  /\ \E response \in Responses :
       LET e == handle_http_error(response)
           all == [ i \in 1..Len(remoteTriggers) |-> Listed(remoteTriggers[i]) ]
           got == IF Len(FlowIdsArg) > 0 THEN get_trigger(all, FlowIdsArg)
                                         ELSE all
       IN IF e # "none"
            THEN Raise(e, "get_triggers") /\ UNCHANGED listVars
            ELSE /\ fetchedAll' = all
                 /\ fetched' = got
                 /\ ti' = 1
                 /\ bi' = 1
                 /\ Goto(IF got = << >> THEN "list_return"
                                        ELSE "get_configuration")
  /\ UNCHANGED << remoteVars, staticVars, phase, triggers, ri, si, calls, rows >>

\* _list_triggers, lines 119-127: the configuration detail of trigger ti.
GetConfigurationDetail ==
  /\ pc = "get_configuration"
  /\ LET trigger == fetched[ti]
     IN \E response \in ConfigResponses(trigger.configurationId) :
          LET e == handle_http_error(response)
          IN /\ IF e = "none"
                  THEN fetched' =
                         [ fetched EXCEPT ![ti].configuration_detail =
                             [ present |-> TRUE,
                               id |-> trigger.configurationId,
                               name |-> ConfigName(trigger.configurationId) ] ]
                  ELSE fetched' = fetched
             /\ IF e \in {"none", "KeboolaClientException"}
                  THEN IF Len(trigger.tables) > 0
                         THEN Goto("get_table") /\ bi' = 1 /\ ti' = ti
                         ELSE /\ bi' = bi
                              /\ ti' = ti + 1
                              /\ Goto(IF ti < Len(fetched) THEN "get_configuration"
                                                           ELSE "list_return")
                  ELSE Raise(e, "get_component_configuration_detail")
                       /\ UNCHANGED << ti, bi >>
  /\ UNCHANGED << remoteVars, staticVars, phase, fetchedAll, triggers, ri, si,
                  calls, rows >>

\* _list_triggers, lines 130-138: the detail of table bi of trigger ti.
GetTableDetail ==
  /\ pc = "get_table"
  /\ LET trigger == fetched[ti]
         tid == trigger.tables[bi].tableId
         answer == remoteTables[tid]
     IN \E response \in TableResponses(tid) :
          LET e == handle_http_error(response)
          IN IF e # "none"
               THEN Raise(e, "get_table_detail") /\ UNCHANGED << fetched, ti, bi >>
               ELSE /\ IF answer.kind = "detail"
                         THEN fetched' =
                                [ fetched EXCEPT ![ti].tables[bi].table_detail =
                                    [ present |-> TRUE, id |-> tid,
                                      lastImportDate |-> answer.lastImportDate,
                                      is_expected |->
                                        is_expected(trigger.lastRun,
                                                    answer.lastImportDate) ] ]
                         ELSE fetched' =
                                [ fetched EXCEPT ![ti].some_tables_missing = TRUE ]
                    /\ IF bi < Len(trigger.tables)
                         THEN Goto("get_table") /\ bi' = bi + 1 /\ ti' = ti
                         ELSE /\ bi' = bi
                              /\ ti' = ti + 1
                              /\ Goto(IF ti < Len(fetched) THEN "get_configuration"
                                                           ELSE "list_return")
  /\ UNCHANGED << remoteVars, staticVars, phase, fetchedAll, triggers, ri, si,
                  calls, rows >>

\* _list_triggers, line 139, and what run() does with the list: the reset
\* loop (line 45) or the report (line 59).
ListReturn ==
  /\ pc = "list_return"
  /\ triggers' = ListResult(fetched)
  /\ ri' = 1
  /\ si' = 1
  /\ IF phase = "reset"
       THEN IF triggers' = << >> THEN AfterReset
                                 ELSE Goto("reset") /\ phase' = phase
       ELSE Goto("write") /\ phase' = phase
  /\ UNCHANGED << remoteVars, staticVars, listVars, calls, rows >>

\* run(), lines 45 and 53-56: the next statement after statement si.
ResetAdvance ==
  IF si < Len(ResetOrder)
    THEN Goto("reset") /\ si' = si + 1 /\ ri' = ri /\ phase' = phase
    ELSE IF ri < Len(triggers)
           THEN Goto("reset") /\ si' = 1 /\ ri' = ri + 1 /\ phase' = phase
           ELSE AfterReset /\ si' = si /\ ri' = ri

\* run(), lines 51-52, and create_trigger.
CreateTrigger ==
  /\ pc = "reset"
  /\ ResetOrder[si] = "create_trigger"
  /\ LET trigger == triggers[ri]
         new_trigger_conf == prep_new_trigger_configuration(trigger)
     IN \E response \in Responses :
          LET e == handle_http_error(response)
          IN /\ calls' = Append(calls, [ op |-> "create_trigger",
                                          id |-> trigger.id,
                                          spec |-> new_trigger_conf,
                                          ok |-> e = "none" ])
             /\ IF e # "none"
                  THEN Raise(e, "create_trigger")
                       /\ UNCHANGED << remoteVars, ri, si, phase >>
                  ELSE /\ remoteTriggers' =
                            Append(remoteTriggers, Created(new_trigger_conf, nextId))
                       /\ nextId' = nextId + 1
                       /\ ResetAdvance
  /\ UNCHANGED << staticVars, listVars, triggers, rows >>

\* run(), line 53, and remove_trigger.
RemoveTrigger ==
  /\ pc = "reset"
  /\ ResetOrder[si] = "remove_trigger"
  /\ LET trigger == triggers[ri]
     IN \E response \in Responses :
          LET e == handle_http_error(response)
          IN /\ calls' = Append(calls, [ op |-> "remove_trigger",
                                          id |-> trigger.id,
                                          spec |-> NoSpec,
                                          ok |-> e = "none" ])
             /\ IF e # "none"
                  THEN Raise(e, "remove_trigger")
                       /\ UNCHANGED << remoteVars, ri, si, phase >>
                  ELSE /\ remoteTriggers' =
                            SelectSeq(remoteTriggers, LAMBDA t : t.id # trigger.id)
                       /\ nextId' = nextId
                       /\ ResetAdvance
  /\ UNCHANGED << staticVars, listVars, triggers, rows >>

\* run(), lines 59-91: the report file and its manifest.
WriteReport ==
  /\ pc = "write"
  /\ IF triggers = << >>
       THEN Return /\ rows' = rows
       ELSE /\ rows' = ReportRows(triggers)
            /\ IF Writable(triggers) < Len(Pairs(triggers, 1))
                 THEN Raise("AttributeError", "writerow")
                 ELSE Return
  /\ UNCHANGED << remoteVars, staticVars, listVars, phase, triggers, ri, si,
                  calls >>

Next ==
  \/ RunStart
  \/ GetTriggers
  \/ GetConfigurationDetail
  \/ GetTableDetail
  \/ ListReturn
  \/ CreateTrigger
  \/ RemoveTrigger
  \/ WriteReport

Spec == Init /\ [][Next]_vars

(* ------------------------------ claims --------------------------------- *)

\* The five settings of a trigger that a reset must preserve.
Settings(t) ==
  [ runWithTokenId |-> t.runWithTokenId, component |-> t.component,
    configurationId |-> t.configurationId,
    coolDownPeriodMinutes |-> t.coolDownPeriodMinutes,
    tableIds |-> t.tables ]

\* The trigger the run started with under this id.
Original(id) == CHOOSE t \in Range(startTriggers) : t.id = id

Targeted(t) == t.configurationId \in Range(parameters.flow_trigger_ids)

\* C1: every remove_trigger call is directly preceded by a create_trigger
\* call for the same original trigger, and that create_trigger succeeded.
C1_CreateBeforeRemove ==
  \A j \in 1..Len(calls) :
    calls[j].op = "remove_trigger" =>
      /\ j > 1
      /\ calls[j - 1].op = "create_trigger"
      /\ calls[j - 1].id = calls[j].id
      /\ calls[j - 1].ok

\* C1 witness: two triggers were reset, each created and then removed.
C1_Witness ==
  /\ Len(calls) = 4
  /\ calls[2].op = "remove_trigger" /\ calls[2].ok
  /\ calls[4].op = "remove_trigger" /\ calls[4].ok
  /\ calls[2].id # calls[4].id

\* C2: in every state the remote holds, for each trigger targeted for reset
\* that existed at the start, a trigger with the same five settings; and when
\* remove_trigger failed after a successful create, the run has ended with
\* both the original and its duplicate on the remote.
C2_NeverZeroTriggers ==
  /\ \A i \in 1..Len(startTriggers) :
       Targeted(startTriggers[i]) =>
         \E k \in 1..Len(remoteTriggers) :
           Settings(remoteTriggers[k]) = Settings(startTriggers[i])
  /\ ( /\ Len(calls) > 0
       /\ calls[Len(calls)].op = "remove_trigger"
       /\ ~calls[Len(calls)].ok )
     => /\ pc = "exit"
        /\ exc # "none"
        /\ \E k \in 1..Len(remoteTriggers) :
             remoteTriggers[k] = Original(calls[Len(calls)].id)
        /\ \E k \in 1..Len(remoteTriggers) :
             /\ remoteTriggers[k].id # calls[Len(calls)].id
             /\ remoteTriggers[k].id >= Len(startTriggers) + 1
             /\ Settings(remoteTriggers[k])
                  = Settings(Original(calls[Len(calls)].id))

\* C2 witness: the second reset's remove_trigger failed after its create.
C2_Witness ==
  /\ Len(calls) = 4
  /\ calls[3].op = "create_trigger" /\ calls[3].ok
  /\ calls[4].op = "remove_trigger" /\ ~calls[4].ok
  /\ Len(remoteTriggers) = 3

\* C3: the specification passed to every create_trigger call equals the
\* original trigger on runWithTokenId, component, configurationId,
\* coolDownPeriodMinutes and the table ids in their order.
C3_SpecEqualsOriginal ==
  \A j \in 1..Len(calls) :
    calls[j].op = "create_trigger" =>
      LET T == Original(calls[j].id)
      IN /\ calls[j].spec.runWithTokenId = T.runWithTokenId
         /\ calls[j].spec.component = T.component
         /\ calls[j].spec.configurationId = T.configurationId
         /\ calls[j].spec.coolDownPeriodMinutes = T.coolDownPeriodMinutes
         /\ calls[j].spec.tableIds = T.tables

\* C3 witness: create_trigger was called with the record of the example.
C3_Witness ==
  \E j \in 1..Len(calls) :
    /\ calls[j].op = "create_trigger"
    /\ calls[j].spec = [ runWithTokenId |-> 456, component |-> "keboola.ex-foo",
                         configurationId |-> "123", coolDownPeriodMinutes |-> 15,
                         tableIds |-> <<"t1", "t2">> ]

C5_MissingTableIsData ==
  /\ failedAt # "get_table_detail"
  /\ failedAt # "writerow"
  /\ \A i \in 1..Len(fetched) :
       \A k \in 1..Len(fetched[i].tables) :
         ( /\ pc \in {"list_return", "reset", "write"}
           /\ remoteTables[fetched[i].tables[k].tableId].kind # "detail" )
         => fetched[i].some_tables_missing

\* C6 (the claim as stated): every is_expected flag attached to a table is
\* true exactly when the trigger's lastRun is strictly before the table's
\* lastImportDate.
C6_ExpectedIffRunBeforeImport ==
  \A i \in 1..Len(fetched) :
    \A k \in 1..Len(fetched[i].tables) :
      LET d == fetched[i].tables[k].table_detail
      IN d.present => (d.is_expected <=> fetched[i].lastRun < d.lastImportDate)

Ids(s) == [ i \in 1..Len(s) |-> s[i].id ]

Unenriched(s) ==
  [ i \in 1..Len(s) |-> [ s[i] EXCEPT !.tables =
                            [ k \in 1..Len(s[i].tables) |->
                                [ tableId |-> s[i].tables[k].tableId,
                                  table_detail |-> NoTableDetail ] ],
                          !.configuration_detail = NoDetail,
                          !.some_tables_missing = FALSE ] ]

\* C7: inside _list_triggers the fetched list is, for a non-empty flow id
\* list, the full remote list restricted to the triggers whose
\* configurationId is in it, in the same order, and the full list otherwise.
C7_FilterByFlowIds ==
  pc \in {"get_configuration", "get_table", "list_return"} =>
    /\ Ids(fetchedAll) = Ids(remoteTriggers)
    /\ IF Len(FlowIdsArg) > 0
         THEN Unenriched(fetched) =
                SelectSeq(fetchedAll,
                          LAMBDA t : \E n \in 1..Len(FlowIdsArg) :
                                       FlowIdsArg[n] = t.configurationId)
         ELSE Unenriched(fetched) = fetchedAll

\* C7 witness: of two remote triggers the filter kept the second only.
C7_Witness ==
  /\ pc = "get_configuration"
  /\ phase = "reset"
  /\ Len(fetchedAll) = 2
  /\ Len(fetched) = 1
  /\ fetched[1].id = 2

\* C8 (the claim as stated): a structured non-2xx answer to get_triggers,
\* create_trigger or remove_trigger ends the run with exit code 1.
C8_RemoteFailureExitsOne ==
  ( /\ failedAt \in {"get_triggers", "create_trigger", "remove_trigger"}
    /\ exc = "KeboolaClientException" )
  => exitCode = 1

\* Number of rows the triggers before index i contribute.
RECURSIVE RowsBefore(_, _)
RowsBefore(trigs, i) ==
  IF i <= 1 THEN 0
  ELSE RowsBefore(trigs, i - 1) + Len(trigs[i - 1].tables)

\* C9: when run() ends normally after the report step, the report holds one
\* row per (trigger, table) pair of the enriched triggers, in trigger-then-
\* table order, and nothing else; without output_list_flows it holds nothing.
C9_OneRowPerPair ==
  /\ (pc = "exit" /\ exc = "none" /\ parameters.output_list_flows) =>
       /\ Len(rows) = RowsBefore(triggers, Len(triggers) + 1)
       /\ \A i \in 1..Len(triggers) :
            \A k \in 1..Len(triggers[i].tables) :
              LET r == rows[RowsBefore(triggers, i) + k]
              IN /\ r.flow_configuration_id = triggers[i].configurationId
                 /\ r.flow_configuration_name
                      = ConfigName(triggers[i].configurationId)
                 /\ r.trigger_last_run = triggers[i].lastRun
                 /\ r.selected_table_id = triggers[i].tables[k].tableId
                 /\ r.selected_table_last_import_date
                      = remoteTables[triggers[i].tables[k].tableId].lastImportDate
  /\ ~parameters.output_list_flows => rows = << >>

\* C9 witness: the run ended normally with a report of two rows for two
\* triggers, the first of which has no table.
C9_Witness ==
  /\ pc = "exit"
  /\ exc = "none"
  /\ Len(triggers) = 2
  /\ Len(triggers[1].tables) = 0
  /\ Len(rows) = 2
  /\ rows[1].selected_table_id = "t2"
  /\ rows[2].selected_table_id = "t1"

\* C10 (the claim as stated): with flow_trigger_ids absent or empty, run()
\* issues no create_trigger or remove_trigger call and does not fail in the
\* reset step.
C10_NoSelectionSkipsReset ==
  (~parameters.has_flow_trigger_ids \/ parameters.flow_trigger_ids = << >>)
  => /\ calls = << >>
     /\ failedAt # "run"

====
